---- MODULE Spec2Model ----
(***************************************************************************)
(* Model of app.py: the resume scoring service.                            *)
(*                                                                         *)
(* Texts are sequences of one-character strings.  Scores are exact         *)
(* rationals [n |-> numerator, d |-> denominator] with d > 0, so that      *)
(* round(x, 2), the thresholds of the fit tables and the alignment ratio   *)
(* are computed, not assumed.                                              *)
(***************************************************************************)
EXTENDS Integers, Sequences, FiniteSets, TLC

VARIABLES
    pc,         \* per request: position inside upload_resume
    upload,     \* per request: request.files / request.form
    locals,     \* per request: local variables of upload_resume
    response,   \* per request: what the client receives
    fs,         \* the working directory of the process, shared by all requests
    consulted,  \* per request: has model.encode been called
    arg,        \* input of the pure function under check
    out         \* its result

vars == <<pc, upload, locals, response, fs, consulted, arg, out>>

----------------------------------------------------------------------------
(* Bounds of the model *)

MaxTextLen == 5       \* length of the resume texts fed to calculate_ats_score
MonoTextLen == 3      \* length of the resume texts of the monotonicity runs
MaxColors == 6        \* distinct colours in a document
MaxParagraphs == 3    \* paragraphs with a recognised alignment
CosDen == 8           \* cosine similarities are k / CosDen, k in -CosDen..CosDen
PipeCosDen == 2       \* the same grid, for the request pipeline

----------------------------------------------------------------------------
(* Exact arithmetic *)

Rat(n, d) == [n |-> n, d |-> d]
RatSub(x, y) == [n |-> x.n * y.d - y.n * x.d, d |-> x.d * y.d]
RatMul(x, y) == [n |-> x.n * y.n, d |-> x.d * y.d]
RatLeq(x, y) == x.n * y.d <= y.n * x.d
RatLess(x, y) == x.n * y.d < y.n * x.d
RatEq(x, y) == x.n * y.d = y.n * x.d
RatMax(x, y) == IF RatLeq(x, y) THEN y ELSE x
RatGeqInt(x, k) == x.n >= k * x.d
RatLtInt(x, k) == x.n < k * x.d

\* nearest integer to n / d (d > 0), ties to the even neighbour: Python's round
RoundHalfEven(n, d) ==
    LET q == (2 * n + d) \div (2 * d)
        tie == (2 * n + d) % (2 * d) = 0
    IN  IF tie /\ q % 2 # 0 THEN q - 1 ELSE q

\* round(x, 2), as hundredths
Round2(x) == Rat(RoundHalfEven(x.n * 100, x.d), 100)

----------------------------------------------------------------------------
(* Text *)

Whitespace == {" ", "\n"}
WordChars == {"a", "b", "c", "d", "e", "i", "j", "l", "m", "n", "o", "p",
              "r", "s", "t", "u", "v", "y", "A", "B", "C", "J", "D"}

\* str.lower on one character
Lower(c) ==
    CASE c = "A" -> "a"
      [] c = "B" -> "b"
      [] c = "C" -> "c"
      [] c = "D" -> "d"
      [] c = "J" -> "j"
      [] OTHER -> c

LowerText(s) == [i \in 1..Len(s) |-> Lower(s[i])]

RECURSIVE LStrip(_)
LStrip(s) == IF s # <<>> /\ Head(s) \in Whitespace THEN LStrip(Tail(s)) ELSE s

RECURSIVE RStrip(_)
RStrip(s) ==
    IF s # <<>> /\ s[Len(s)] \in Whitespace
    THEN RStrip(SubSeq(s, 1, Len(s) - 1)) ELSE s

\* str.strip
Strip(s) == RStrip(LStrip(s))

\* re.sub(r"\s+", " ", s)
RECURSIVE CollapseWs(_)
CollapseWs(s) ==
    IF s = <<>> THEN <<>>
    ELSE IF Head(s) \in Whitespace
         THEN <<" ">> \o CollapseWs(LStrip(s))
         ELSE <<Head(s)>> \o CollapseWs(Tail(s))

preprocess_text(text) == CollapseWs(Strip(LowerText(text)))

\* re.findall(r'\w+', s): the maximal runs of word characters, in order
RECURSIVE FindWords(_, _)
FindWords(s, cur) ==
    IF s = <<>> THEN (IF cur = <<>> THEN <<>> ELSE <<cur>>)
    ELSE IF Head(s) \in WordChars
         THEN FindWords(Tail(s), Append(cur, Head(s)))
         ELSE (IF cur = <<>> THEN <<>> ELSE <<cur>>) \o FindWords(Tail(s), <<>>)

Range(f) == {f[i] : i \in DOMAIN f}

\* all sequences over S of length at most n
RECURSIVE SeqsUpTo(_, _)
SeqsUpTo(S, n) ==
    IF n = 0 THEN {<<>>}
    ELSE LET shorter == SeqsUpTo(S, n - 1)
         IN  shorter \cup {Append(s, c) : s \in {t \in shorter : Len(t) = n - 1}, c \in S}

----------------------------------------------------------------------------
(* Scoring functions *)

calculate_keyword_score(resume_text) ==
    LET words == FindWords(LowerText(resume_text), <<>>)
        unique_words == Range(words)
    IN  IF words # <<>>
        THEN Round2(Rat(Cardinality(unique_words) * 100, Len(words)))
        ELSE Rat(0, 1)

Clamp0Missing(x) == x
Clamp0(x) == RatMax(x, Rat(0, 1))

color_penalty(colors_used) ==
    LET p == Cardinality(colors_used) * 2
    IN  IF p < 10 THEN p ELSE 10

left_ratio_zero_default(alignment_counts) ==
    LET total_alignments ==
            alignment_counts.left + alignment_counts.center + alignment_counts.right
    IN  IF total_alignments # 0
        THEN Rat(alignment_counts.left, total_alignments)
        ELSE Rat(0, 1)
left_ratio(alignment_counts) ==
    LET total_alignments ==
            alignment_counts.left + alignment_counts.center + alignment_counts.right
    IN  IF total_alignments # 0
        THEN Rat(alignment_counts.left, total_alignments)
        ELSE Rat(1, 1)

calculate_ats_score(resume_text, color_analysis) ==
    LET words == FindWords(LowerText(resume_text), <<>>)
        unique_words == Range(words)
        text_score == IF words # <<>>
                      THEN Round2(Rat(Cardinality(unique_words) * 100, Len(words)))
                      ELSE Rat(0, 1)
        alignment_penalty ==
            RatMul(RatSub(Rat(1, 1), left_ratio(color_analysis.alignment_counts)),
                   Rat(10, 1))
        ats_score ==
            RatSub(RatSub(text_score, Rat(color_penalty(color_analysis.colors_used), 1)),
                   alignment_penalty)
    IN  Clamp0(ats_score)

categorize_fit_open_edge(score) ==
    IF ~RatLeq(score, Rat(90, 1)) THEN "Excellent Fit"
    ELSE IF RatGeqInt(score, 80) /\ RatLtInt(score, 90) THEN "Very Good Fit"
    ELSE IF RatGeqInt(score, 70) /\ RatLtInt(score, 80) THEN "Good Fit"
    ELSE IF RatGeqInt(score, 60) /\ RatLtInt(score, 70) THEN "Average Fit"
    ELSE "Not Fit"
categorize_fit(score) ==
    IF RatGeqInt(score, 90) THEN "Excellent Fit"
    ELSE IF RatGeqInt(score, 80) /\ RatLtInt(score, 90) THEN "Very Good Fit"
    ELSE IF RatGeqInt(score, 70) /\ RatLtInt(score, 80) THEN "Good Fit"
    ELSE IF RatGeqInt(score, 60) /\ RatLtInt(score, 70) THEN "Average Fit"
    ELSE "Not Fit"

categorize_jd_fit(score) ==
    IF RatGeqInt(score, 80) THEN "Excellent Fit"
    ELSE IF RatGeqInt(score, 70) /\ RatLtInt(score, 80) THEN "Good Fit"
    ELSE IF RatGeqInt(score, 60) /\ RatLtInt(score, 70) THEN "Average Fit"
    ELSE "Not Fit"


\* util.pytorch_cos_sim(...).item() is supplied by the embedding model: cos
calculate_similarity_score(resume_text, job_text, cos) ==
    IF Strip(job_text) = <<>> THEN Rat(0, 1)
    ELSE Round2(RatMul(cos, Rat(100, 1)))

----------------------------------------------------------------------------
(* The request pipeline is idle in the specifications of the pure functions *)

Requests == {"r1", "r2"}

NoOut == [kind |-> "none"]
NoArg == [kind |-> "none"]

PipelineIdle ==
    /\ pc = [r \in Requests |-> "idle"]
    /\ upload = [r \in Requests |-> [kind |-> "none"]]
    /\ locals = [r \in Requests |-> [kind |-> "none"]]
    /\ response = [r \in Requests |-> [kind |-> "none"]]
    /\ fs = [kind |-> "none"]
    /\ consulted = [r \in Requests |-> FALSE]

PipelineUnchanged == UNCHANGED <<pc, upload, locals, response, fs, consulted>>

----------------------------------------------------------------------------
(* SpecFit: categorize_fit and categorize_jd_fit on every score k / 100 *)

InitFit ==
    /\ PipelineIdle
    /\ arg \in {[kind |-> "score", score |-> Rat(k, 100)] : k \in 0..10000}
    /\ out = NoOut

Categorize ==
    /\ arg.kind = "score"
    /\ out = NoOut
    /\ out' = [kind |-> "fit",
               ats |-> categorize_fit(arg.score),
               jd |-> categorize_jd_fit(arg.score)]
    /\ UNCHANGED arg
    /\ PipelineUnchanged

NextFit == Categorize

SpecFit == InitFit /\ [][NextFit]_vars

----------------------------------------------------------------------------
(* SpecAts: calculate_ats_score on every text and StructuralSignals record *)

TextChars == {"a", "B", " "}

AlignmentCounts ==
    {a \in [left : 0..MaxParagraphs, center : 0..MaxParagraphs, right : 0..MaxParagraphs] :
        a.left + a.center + a.right <= MaxParagraphs}

ColorAnalyses ==
    [colors_used : {1..k : k \in 0..MaxColors},
     alignment_counts : AlignmentCounts,
     fonts_used : {{}}]

InitAts ==
    /\ PipelineIdle
    /\ arg \in [kind : {"ats"},
                resume_text : SeqsUpTo(TextChars, MaxTextLen),
                color_analysis : ColorAnalyses]
    /\ out = NoOut

CalcAts ==
    /\ arg.kind = "ats"
    /\ out = NoOut
    /\ out' = [kind |-> "ats",
               score |-> calculate_ats_score(arg.resume_text, arg.color_analysis),
               before |-> NoOut]
    /\ UNCHANGED arg
    /\ PipelineUnchanged

NextAts == CalcAts

SpecAts == InitAts /\ [][NextAts]_vars

----------------------------------------------------------------------------
(* SpecMono: one more colour, or other alignment counts, and the score again *)

InitMono ==
    /\ PipelineIdle
    /\ arg \in [kind : {"ats"},
                resume_text : SeqsUpTo(TextChars, MonoTextLen),
                color_analysis : ColorAnalyses]
    /\ out = NoOut

AddColor ==
    /\ out.kind = "ats"
    /\ out.before = NoOut
    /\ Cardinality(arg.color_analysis.colors_used) < MaxColors
    /\ LET more == [arg.color_analysis EXCEPT
                        !.colors_used = @ \cup {Cardinality(@) + 1}]
       IN  /\ arg' = [arg EXCEPT !.color_analysis = more]
           /\ out' = [kind |-> "ats",
                      score |-> calculate_ats_score(arg.resume_text, more),
                      before |-> [kind |-> "color",
                                  color_analysis |-> arg.color_analysis,
                                  score |-> out.score]]
    /\ PipelineUnchanged

Realign ==
    /\ out.kind = "ats"
    /\ out.before = NoOut
    /\ \E counts \in AlignmentCounts \ {arg.color_analysis.alignment_counts} :
         LET other == [arg.color_analysis EXCEPT !.alignment_counts = counts]
         IN  /\ arg' = [arg EXCEPT !.color_analysis = other]
             /\ out' = [kind |-> "ats",
                        score |-> calculate_ats_score(arg.resume_text, other),
                        before |-> [kind |-> "alignment",
                                    color_analysis |-> arg.color_analysis,
                                    score |-> out.score]]
    /\ PipelineUnchanged

NextMono == CalcAts \/ AddColor \/ Realign

SpecMono == InitMono /\ [][NextMono]_vars

----------------------------------------------------------------------------
(* SpecSim: calculate_similarity_score on a pair of texts, both ways round.  *)
(* The embedding model is deterministic and its cosine symmetric: one cos   *)
(* belongs to the unordered pair.                                           *)

SimChars == {"a", " "}
SimTexts == SeqsUpTo(SimChars, 2)
Cosines(den) == {Rat(k, den) : k \in (0 - den)..den}

InitSim ==
    /\ PipelineIdle
    /\ arg \in [kind : {"sim"}, a : SimTexts, b : SimTexts, cos : Cosines(CosDen)]
    /\ out = NoOut

CalcSim ==
    /\ arg.kind = "sim"
    /\ out = NoOut
    /\ out' = [kind |-> "sim",
               ab |-> calculate_similarity_score(arg.a, arg.b, arg.cos),
               ba |-> calculate_similarity_score(arg.b, arg.a, arg.cos)]
    /\ UNCHANGED arg
    /\ PipelineUnchanged

NextSim == CalcSim

SpecSim == InitSim /\ [][NextSim]_vars


----------------------------------------------------------------------------
(* Documents, uploads and the working directory *)

S_pdf == <<".", "p", "d", "f">>
S_docx == <<".", "d", "o", "c", "x">>

\* str.endswith
EndsWith(s, suffix) ==
    /\ Len(s) >= Len(suffix)
    /\ SubSeq(s, Len(s) - Len(suffix) + 1, Len(s)) = suffix

\* "\n".join(parts)
RECURSIVE JoinLines(_)
JoinLines(parts) ==
    IF parts = <<>> THEN <<>>
    ELSE IF Len(parts) = 1 THEN parts[1]
    ELSE parts[1] \o <<"\n">> \o JoinLines(Tail(parts))

\* A parsed PDF: pages, each with extract_text() (has_text FALSE: it returns None)
\* and its glyph records.  A parsed DOCX: paragraphs with text, alignment
\* (3: justified, 9: unset) and the font names of the runs ("": no name).
PdfTwoColors ==
    [format |-> "pdf",
     pages |-> << [has_text |-> TRUE, text |-> <<"a", " ", "B">>,
                   chars |-> << [non_stroking_color |-> 0, fontname |-> "Arial"],
                                [non_stroking_color |-> 1, fontname |-> "Arial"] >>] >>]
PdfNoText ==
    [format |-> "pdf",
     pages |-> << [has_text |-> FALSE, text |-> <<>>, chars |-> <<>>],
                  [has_text |-> FALSE, text |-> <<>>, chars |-> <<>>] >>]
DocxMixed ==
    [format |-> "docx",
     paragraphs |-> << [text |-> <<"a", " ", "a">>, alignment |-> 0, runs |-> <<"Arial">>],
                       [text |-> <<"b">>, alignment |-> 1, runs |-> <<"">>],
                       [text |-> <<"c">>, alignment |-> 9, runs |-> <<>>] >>]
DocxBlank ==
    [format |-> "docx",
     paragraphs |-> << [text |-> <<" ">>, alignment |-> 2, runs |-> <<>>],
                       [text |-> <<>>, alignment |-> 9, runs |-> <<>>] >>]
Garbage == [format |-> "garbage"]

F_cv_pdf == <<"c", "v", ".", "p", "d", "f">>
F_b_pdf == <<"b", ".", "p", "d", "f">>
F_cv_docx == <<"c", "v", ".", "d", "o", "c", "x">>
F_cv_txt == <<"c", "v", ".", "t", "x", "t">>

EmptyForm ==
    [job_description |-> <<>>, job_title |-> <<>>, job_industry |-> <<>>,
     company_city |-> <<>>, company_name |-> <<>>]
TitleForm == [EmptyForm EXCEPT !.job_title = <<" ", "D", "e", "v">>]

File(name, doc) == [kind |-> "file", filename |-> name, doc |-> doc]

Uploads ==
    {[files |-> f, form |-> g] :
        f \in {[kind |-> "nofile"],
               File(F_cv_txt, PdfTwoColors),
               File(F_cv_pdf, PdfTwoColors),
               File(F_cv_pdf, PdfNoText),
               File(F_b_pdf, PdfNoText),
               File(F_cv_pdf, Garbage),
               File(F_cv_docx, DocxMixed),
               File(F_cv_docx, DocxBlank)},
        g \in {EmptyForm, TitleForm}}

\* f"./{file.filename}"
FilePath(filename) == <<".", "/">> \o filename

Paths == {FilePath(F_cv_txt), FilePath(F_cv_pdf), FilePath(F_b_pdf), FilePath(F_cv_docx)}

Absent == [kind |-> "absent"]

\* file.save(file_path); owner records which request wrote the bytes
file_save(files, path, doc, r) ==
    [files EXCEPT ![path] = [kind |-> "file", doc |-> doc, owner |-> r]]

\* os.path.exists(file_path)
os_path_exists(files, path) == files[path].kind = "file"

\* os.remove(file_path)
os_remove_skipped(files, path) == files
os_remove(files, path) == [files EXCEPT ![path] = Absent]

----------------------------------------------------------------------------
(* Extraction and structural analysis; each returns [ok, ...] or an exception *)

Raise(e) == [ok |-> FALSE, error |-> e]

extract_pdf_text(files, file_path) ==
    IF ~os_path_exists(files, file_path) THEN Raise("FileNotFoundError")
    ELSE IF files[file_path].doc.format # "pdf" THEN Raise("PDFSyntaxError")
    ELSE LET pages == files[file_path].doc.pages
         IN  [ok |-> TRUE,
              owner |-> files[file_path].owner,
              text |-> JoinLines([i \in 1..Len(pages) |->
                                    IF pages[i].has_text THEN pages[i].text ELSE <<>>])]

extract_word_text(files, file_path) ==
    IF ~os_path_exists(files, file_path) THEN Raise("PackageNotFoundError")
    ELSE IF files[file_path].doc.format # "docx" THEN Raise("BadZipFile")
    ELSE LET paragraphs == files[file_path].doc.paragraphs
         IN  [ok |-> TRUE,
              owner |-> files[file_path].owner,
              text |-> JoinLines([i \in 1..Len(paragraphs) |-> paragraphs[i].text])]

RECURSIVE PageGlyphs(_)
PageGlyphs(pages) ==
    IF pages = <<>> THEN <<>> ELSE Head(pages).chars \o PageGlyphs(Tail(pages))

RECURSIVE RunFonts(_)
RunFonts(paragraphs) ==
    IF paragraphs = <<>> THEN {}
    ELSE {f \in Range(Head(paragraphs).runs) : f # ""} \cup RunFonts(Tail(paragraphs))

CountAlignment(paragraphs, a) ==
    Cardinality({i \in 1..Len(paragraphs) : paragraphs[i].alignment = a})

check_color_alignment_fonts(files, file_path) ==
    IF EndsWith(file_path, S_pdf)
    THEN IF ~os_path_exists(files, file_path) THEN Raise("FileNotFoundError")
         ELSE IF files[file_path].doc.format # "pdf" THEN Raise("PDFSyntaxError")
         ELSE LET glyphs == PageGlyphs(files[file_path].doc.pages)
              IN  [ok |-> TRUE,
                   owner |-> files[file_path].owner,
                   colors_used |-> {glyphs[i].non_stroking_color : i \in 1..Len(glyphs)},
                   alignment_counts |-> [left |-> 0, center |-> 0, right |-> 0],
                   fonts_used |-> {glyphs[i].fontname : i \in 1..Len(glyphs)}]
    ELSE IF ~os_path_exists(files, file_path) THEN Raise("PackageNotFoundError")
         ELSE IF files[file_path].doc.format # "docx" THEN Raise("BadZipFile")
         ELSE LET paragraphs == files[file_path].doc.paragraphs
              IN  [ok |-> TRUE,
                   owner |-> files[file_path].owner,
                   colors_used |-> {},
                   alignment_counts |-> [left |-> CountAlignment(paragraphs, 0),
                                         center |-> CountAlignment(paragraphs, 1),
                                         right |-> CountAlignment(paragraphs, 2)],
                   fonts_used |-> RunFonts(paragraphs)]

\* the f-string of the job context, then preprocess_text
L_title == <<"J", "o", "b", " ", "t", "i", "t", "l", "e", ":", " ">>
L_industry == <<"\n", "J", "o", "b", " ", "i", "n", "d", "u", "s", "t", "r", "y", ":", " ">>
L_city == <<"\n", "C", "o", "m", "p", "a", "n", "y", " ", "c", "i", "t", "y", ":", " ">>
L_company == <<"\n", "C", "o", "m", "p", "a", "n", "y", " ", "n", "a", "m", "e", ":", " ">>
L_description == <<"\n", "J", "o", "b", " ", "d", "e", "s", "c", "r", "i", "p", "t", "i", "o", "n", ":", " ">>

temp_job_description(form) ==
    LET job_description == preprocess_text(form.job_description)
        job_title == preprocess_text(form.job_title)
        job_industry == preprocess_text(form.job_industry)
        company_city == preprocess_text(form.company_city)
        company_name == preprocess_text(form.company_name)
    IN  preprocess_text(L_title \o job_title \o L_industry \o job_industry
                        \o L_city \o company_city \o L_company \o company_name
                        \o L_description \o job_description)

\* classifier(sequence, labels): the zero-shot pipeline rejects an empty
\* sequence with ValueError; any call may fail at inference
classifier_accepting_empty(sequence) == {"labels", "RuntimeError"}
classifier(sequence) ==
    IF Len(sequence) = 0 THEN {"ValueError"} ELSE {"labels", "RuntimeError"}

\* s[:n]
Prefix(s, n) == SubSeq(s, 1, IF Len(s) < n THEN Len(s) ELSE n)


----------------------------------------------------------------------------
(* Responses *)

Str(x) == [str |-> x]

JsonError(message, status) ==
    [kind |-> "json", status |-> status, body |-> << <<"error", Str(message)>> >>]

\* the OrderedDict of upload_resume, dumped with sort_keys=False
ScoreRecord(l) ==
    [kind |-> "json", status |-> 200,
     body |-> << <<"ats_score", l.ats_score>>,
                 <<"job_description_score", l.similarity_scores>>,
                 <<"ats_fit_status", Str(l.ats_fit_status)>>,
                 <<"job_description_fit_status", Str(l.jd_fit_status)>> >>]

\* except Exception as e: the error object
ExceptResponseWithScores(message, l) ==
    [kind |-> "json", status |-> 500,
     body |-> IF l.has_ats
              THEN << <<"error", Str(message)>>, <<"ats_score", l.ats_score>> >>
              ELSE << <<"error", Str(message)>> >>]
ExceptResponse(message, l) == JsonError(message, 500)

\* an exception that leaves upload_resume: the framework answers 500 itself
Unhandled == [kind |-> "unhandled", status |-> 500, body |-> <<>>]

NoResponse == [kind |-> "none"]

Keys(resp) == [i \in 1..Len(resp.body) |-> resp.body[i][1]]

RecordKeys ==
    <<"ats_score", "job_description_score", "ats_fit_status", "job_description_fit_status">>

Value(resp, key) == resp.body[CHOOSE i \in 1..Len(resp.body) : resp.body[i][1] = key][2]

IsRecord(resp) == resp.kind = "json" /\ resp.status = 200

----------------------------------------------------------------------------
(* Spec: upload_resume, for concurrent requests on one working directory *)

NoLocals == [kind |-> "none"]

Init ==
    /\ pc = [r \in Requests |-> "start"]
    /\ upload \in [Requests -> Uploads]
    /\ locals = [r \in Requests |-> NoLocals]
    /\ response = [r \in Requests |-> NoResponse]
    /\ fs = [p \in Paths |-> Absent]
    /\ consulted = [r \in Requests |-> FALSE]
    /\ arg = NoArg
    /\ out = NoOut

ValidUpload(u) ==
    /\ u.files.kind = "file"
    /\ (EndsWith(u.files.filename, S_pdf) \/ EndsWith(u.files.filename, S_docx))

\* lines 110-115: the request is rejected before anything is saved
Reject(r) ==
    /\ pc[r] = "start"
    /\ ~ValidUpload(upload[r])
    /\ response' = [response EXCEPT ![r] =
            IF upload[r].files.kind = "nofile"
            THEN JsonError("No file uploaded", 400)
            ELSE JsonError("Only PDF or Word files are allowed", 400)]
    /\ pc' = [pc EXCEPT ![r] = "done"]
    /\ UNCHANGED <<upload, locals, fs, consulted, arg, out>>

\* lines 117-127: the job context is composed and the upload saved
Save(r) ==
    /\ pc[r] = "start"
    /\ ValidUpload(upload[r])
    /\ LET file_path == FilePath(upload[r].files.filename)
       IN  /\ locals' = [locals EXCEPT ![r] =
                  [kind |-> "locals",
                   file_path |-> file_path,
                   temp_job_description |-> temp_job_description(upload[r].form),
                   has_text |-> FALSE, resume_text |-> <<>>,
                   has_ats |-> FALSE, ats_score |-> Rat(0, 1), ats_fit_status |-> "",
                   has_sim |-> FALSE, similarity_scores |-> Rat(0, 1), jd_fit_status |-> "",
                   read |-> {}]]
           /\ fs' = file_save(fs, file_path, upload[r].files.doc, r)
    /\ pc' = [pc EXCEPT ![r] = "extract"]
    /\ UNCHANGED <<upload, response, consulted, arg, out>>

\* an exception inside the try block: lines 155-156, then the finally block
Except(r, message) ==
    /\ response' = [response EXCEPT ![r] = ExceptResponse(message, locals[r])]
    /\ pc' = [pc EXCEPT ![r] = "finally"]

\* lines 130-131
Extract(r) ==
    /\ pc[r] = "extract"
    /\ LET l == locals[r]
           got == IF EndsWith(upload[r].files.filename, S_pdf)
                  THEN extract_pdf_text(fs, l.file_path)
                  ELSE extract_word_text(fs, l.file_path)
       IN  IF got.ok
           THEN /\ locals' = [locals EXCEPT ![r] =
                       [l EXCEPT !.has_text = TRUE,
                                 !.resume_text = preprocess_text(got.text),
                                 !.read = @ \cup {got.owner}]]
                /\ pc' = [pc EXCEPT ![r] = "analyze"]
                /\ UNCHANGED response
           ELSE /\ Except(r, got.error)
                /\ UNCHANGED locals
    /\ UNCHANGED <<upload, fs, consulted, arg, out>>

\* lines 133-135
Analyze(r) ==
    /\ pc[r] = "analyze"
    /\ LET l == locals[r]
           color_alignment_check == check_color_alignment_fonts(fs, l.file_path)
       IN  IF color_alignment_check.ok
           THEN LET ats_score == calculate_ats_score(l.resume_text, color_alignment_check)
                IN  /\ locals' = [locals EXCEPT ![r] =
                           [l EXCEPT !.has_ats = TRUE,
                                     !.ats_score = ats_score,
                                     !.ats_fit_status = categorize_fit(ats_score),
                                     !.read = @ \cup {color_alignment_check.owner}]]
                    /\ pc' = [pc EXCEPT ![r] = "similarity"]
                    /\ UNCHANGED response
           ELSE /\ Except(r, color_alignment_check.error)
                /\ UNCHANGED locals
    /\ UNCHANGED <<upload, fs, consulted, arg, out>>

\* lines 137-138: with an empty job text the model is not called; otherwise
\* model.encode answers with some cosine, or fails
Similarity(r) ==
    /\ pc[r] = "similarity"
    /\ LET l == locals[r]
       IN  IF Strip(l.temp_job_description) = <<>>
           THEN LET s == calculate_similarity_score(l.resume_text, l.temp_job_description,
                                                    Rat(0, 1))
                IN  /\ locals' = [locals EXCEPT ![r] =
                           [l EXCEPT !.has_sim = TRUE,
                                     !.similarity_scores = s,
                                     !.jd_fit_status = categorize_jd_fit(s)]]
                    /\ pc' = [pc EXCEPT ![r] = "classify"]
                    /\ UNCHANGED <<response, consulted>>
           ELSE /\ consulted' = [consulted EXCEPT ![r] = TRUE]
                /\ \/ \E cos \in Cosines(PipeCosDen) :
                        LET s == calculate_similarity_score(l.resume_text,
                                                            l.temp_job_description, cos)
                        IN  /\ locals' = [locals EXCEPT ![r] =
                                   [l EXCEPT !.has_sim = TRUE,
                                             !.similarity_scores = s,
                                             !.jd_fit_status = categorize_jd_fit(s)]]
                            /\ pc' = [pc EXCEPT ![r] = "classify"]
                            /\ UNCHANGED response
                   \/ /\ Except(r, "RuntimeError")
                      /\ UNCHANGED locals
    /\ UNCHANGED <<upload, fs, arg, out>>

\* lines 141-153: the classifier is called, its result dropped, the record built
Classify(r) ==
    /\ pc[r] = "classify"
    /\ \E answer \in classifier(Prefix(locals[r].resume_text, 1000)) :
         IF answer = "labels"
         THEN /\ response' = [response EXCEPT ![r] = ScoreRecord(locals[r])]
              /\ pc' = [pc EXCEPT ![r] = "finally"]
         ELSE Except(r, answer)
    /\ UNCHANGED <<upload, locals, fs, consulted, arg, out>>

\* line 159
FinallyExists(r) ==
    /\ pc[r] = "finally"
    /\ pc' = [pc EXCEPT ![r] =
            IF os_path_exists(fs, locals[r].file_path) THEN "remove" ELSE "done"]
    /\ UNCHANGED <<upload, locals, response, fs, consulted, arg, out>>

\* line 160: os.remove raises when the file has gone since line 159, and the
\* exception replaces the pending return value
Remove(r) ==
    /\ pc[r] = "remove"
    /\ IF os_path_exists(fs, locals[r].file_path)
       THEN /\ fs' = os_remove(fs, locals[r].file_path)
            /\ UNCHANGED response
       ELSE /\ response' = [response EXCEPT ![r] = Unhandled]
            /\ UNCHANGED fs
    /\ pc' = [pc EXCEPT ![r] = "done"]
    /\ UNCHANGED <<upload, locals, consulted, arg, out>>

Next ==
    \E r \in Requests :
        \/ Reject(r)
        \/ Save(r)
        \/ Extract(r)
        \/ Analyze(r)
        \/ Similarity(r)
        \/ Classify(r)
        \/ FinallyExists(r)
        \/ Remove(r)

Spec == Init /\ [][Next]_vars


----------------------------------------------------------------------------
(* Properties *)

InRange0to100(x) == RatLeq(Rat(0, 1), x) /\ RatLeq(x, Rat(100, 1))

\* left / (left + center + right), 1 when the sum is 0, as the claims state it
StatedLeftRatio(a) ==
    IF a.left + a.center + a.right = 0 THEN Rat(1, 1)
    ELSE Rat(a.left, a.left + a.center + a.right)

\* C1: calculate_ats_score returns a value in [0,100] equal to
\* max(text_score - min(2 * colors, 10) - (1 - left_ratio) * 10, 0), text_score
\* being the lexical density of the text and left_ratio being 1 when there are
\* no alignment counts.
C1_AtsScoreContract ==
    out.kind = "ats" =>
        LET ts == calculate_keyword_score(arg.resume_text)
            c == Cardinality(arg.color_analysis.colors_used)
            a == arg.color_analysis.alignment_counts
            T == IF a.left + a.center + a.right = 0 THEN 1 ELSE a.left + a.center + a.right
            L == IF a.left + a.center + a.right = 0 THEN 1 ELSE a.left
            pen == IF 2 * c < 10 THEN 2 * c ELSE 10
            num == ts.n * T - pen * ts.d * T - 10 * (T - L) * ts.d
            expected == IF num > 0 THEN Rat(num, ts.d * T) ELSE Rat(0, 1)
        IN  /\ InRange0to100(out.score)
            /\ RatEq(out.score, expected)

\* six colours, one of three paragraphs left-aligned, "a a a":
\* 33.33 - 10 - 20/3 = 4999/300
C1_Witness ==
    /\ out.kind = "ats"
    /\ Cardinality(arg.color_analysis.colors_used) = 6
    /\ arg.color_analysis.alignment_counts = [left |-> 1, center |-> 2, right |-> 0]
    /\ arg.resume_text = <<"a", " ", "a", " ", "a">>
    /\ RatEq(out.score, Rat(4999, 300))

\* C2: the similarity score placed in the response as job_description_score
\* lies in [0,100] for every cosine in [-1,1].
C2_SimilarityClamped ==
    \A r \in Requests :
        IsRecord(response[r]) =>
            InRange0to100(Value(response[r], "job_description_score"))

FitRank(f) ==
    CASE f = "Not Fit" -> 0
      [] f = "Average Fit" -> 1
      [] f = "Good Fit" -> 2
      [] f = "Very Good Fit" -> 3
      [] f = "Excellent Fit" -> 4

\* C3: on every score k/100 in [0,100] categorize_fit and categorize_jd_fit
\* follow their threshold tables, each band closed on its lower edge; both are
\* monotonic; the JD table has no Very Good; 90.00 and 89.99, 80.00 and 79.99
\* fall on the two sides of the top edges.
C3_FitTables ==
    out.kind = "fit" =>
        LET k == arg.score.n
        IN  /\ arg.score.d = 100
            /\ out.ats = (IF k >= 9000 THEN "Excellent Fit"
                          ELSE IF k >= 8000 THEN "Very Good Fit"
                          ELSE IF k >= 7000 THEN "Good Fit"
                          ELSE IF k >= 6000 THEN "Average Fit"
                          ELSE "Not Fit")
            /\ out.jd = (IF k >= 8000 THEN "Excellent Fit"
                         ELSE IF k >= 7000 THEN "Good Fit"
                         ELSE IF k >= 6000 THEN "Average Fit"
                         ELSE "Not Fit")
            /\ out.jd # "Very Good Fit"
            /\ k > 0 => /\ FitRank(categorize_fit(Rat(k - 1, 100))) <= FitRank(out.ats)
                        /\ FitRank(categorize_jd_fit(Rat(k - 1, 100))) <= FitRank(out.jd)
            /\ k = 9000 => out.ats = "Excellent Fit"
            /\ k = 8999 => out.ats = "Very Good Fit"
            /\ k = 8000 => out.jd = "Excellent Fit"
            /\ k = 7999 => out.jd = "Good Fit"

C3_Witness ==
    /\ out.kind = "fit"
    /\ arg.score = Rat(8999, 100)
    /\ out.ats = "Very Good Fit"
    /\ out.jd = "Excellent Fit"

AllFieldsEmpty(form) ==
    /\ form.job_title = <<>>
    /\ form.job_industry = <<>>
    /\ form.company_city = <<>>
    /\ form.company_name = <<>>
    /\ form.job_description = <<>>

\* C4: a request whose job context is empty (in particular one that supplies
\* none of the five job fields) does not consult the embedding model, and its
\* record carries job_description_score 0 and job_description_fit_status Not Fit.
C4_EmptyJobContextScoresZero ==
    \A r \in Requests :
        (/\ ValidUpload(upload[r])
         /\ \/ AllFieldsEmpty(upload[r].form)
            \/ locals[r].kind = "locals" /\ locals[r].temp_job_description = <<>>)
        => /\ ~consulted[r]
           /\ IsRecord(response[r]) =>
                /\ RatEq(Value(response[r], "job_description_score"), Rat(0, 1))
                /\ Value(response[r], "job_description_fit_status") = Str("Not Fit")

\* C5: with the text fixed, one more colour never raises the score (it costs 2
\* points while fewer than five colours are in use and the score has them to
\* lose, nothing once the penalty has reached 10), and other alignment counts
\* with a lower left_ratio never raise it.
C5_MonotoneInPenalties ==
    (out.kind = "ats" /\ out.before.kind # "none") =>
        LET was == out.before
        IN  /\ was.kind = "color" =>
                /\ RatLeq(out.score, was.score)
                /\ Cardinality(was.color_analysis.colors_used) >= 5 =>
                        RatEq(out.score, was.score)
                /\ (/\ Cardinality(was.color_analysis.colors_used) < 5
                    /\ RatLeq(Rat(2, 1), was.score)) =>
                        RatEq(out.score, RatSub(was.score, Rat(2, 1)))
            /\ (/\ was.kind = "alignment"
                /\ RatLess(StatedLeftRatio(arg.color_analysis.alignment_counts),
                           StatedLeftRatio(was.color_analysis.alignment_counts))) =>
                    RatLeq(out.score, was.score)

\* from no alignment counts to one paragraph of two left-aligned: 5 points lost
C5_Witness ==
    /\ out.kind = "ats"
    /\ out.before.kind = "alignment"
    /\ out.before.color_analysis.alignment_counts = [left |-> 0, center |-> 0, right |-> 0]
    /\ arg.color_analysis.alignment_counts = [left |-> 1, center |-> 1, right |-> 0]
    /\ RatEq(out.score, RatSub(out.before.score, Rat(5, 1)))

\* C6: calculate_similarity_score(A, B) = calculate_similarity_score(B, A) for
\* any two texts, also when exactly one of them is empty or blank.
C6_SimilaritySymmetric ==
    out.kind = "sim" => RatEq(out.ab, out.ba)

\* C7: whatever upload_resume answers is either the complete record, its four
\* fields in order and built from the scores computed, or carries none of the
\* record's fields.
C7_AllOrNothing ==
    \A r \in Requests :
        response[r].kind # "none" =>
            \/ /\ IsRecord(response[r])
               /\ Keys(response[r]) = RecordKeys
               /\ locals[r].has_ats /\ locals[r].has_sim
               /\ response[r] = ScoreRecord(locals[r])
            \/ /\ ~IsRecord(response[r])
               /\ \A i \in 1..Len(response[r].body) :
                      Keys(response[r])[i] \notin Range(RecordKeys)

\* both scores were computed, then the classifier failed: an error object only
C7_Witness ==
    \E r \in Requests :
        /\ pc[r] = "done"
        /\ locals[r].kind = "locals"
        /\ locals[r].has_ats /\ locals[r].has_sim
        /\ response[r] = JsonError("RuntimeError", 500)

OwnedFiles(r) == {p \in Paths : fs[p].kind = "file" /\ fs[p].owner = r}

\* C8: once a request has returned, the file it saved no longer exists, on
\* every exit path; a request rejected by validation never creates a file.
C8_TempFileCleanedUp ==
    \A r \in Requests :
        /\ pc[r] = "done" => OwnedFiles(r) = {}
        /\ ~ValidUpload(upload[r]) => (OwnedFiles(r) = {} /\ locals[r] = NoLocals)

\* a request that saved its upload and failed at extraction has returned, and
\* the directory is empty
C8_Witness ==
    \E r \in Requests :
        /\ pc[r] = "done"
        /\ locals[r].kind = "locals"
        /\ ~locals[r].has_text
        /\ response[r] = JsonError("PDFSyntaxError", 500)
        /\ \A p \in Paths : fs[p] = Absent

OwnFiles(r) ==
    file_save([p \in Paths |-> Absent], FilePath(upload[r].files.filename),
              upload[r].files.doc, r)

\* C10: requests are independent: each reads only the bytes it saved itself,
\* the file of a request that still has to read it is in place, and a request
\* that has returned a record returned the ATS score of its own document (and
\* never the framework's own error page).
C10_RequestsIndependent ==
    \A r \in Requests :
        /\ locals[r].kind = "locals" => locals[r].read \subseteq {r}
        /\ pc[r] \in {"extract", "analyze"} =>
                locals[r].file_path \in OwnedFiles(r)
        /\ pc[r] = "done" => response[r] # Unhandled
        /\ (pc[r] = "done" /\ IsRecord(response[r])) =>
                LET path == FilePath(upload[r].files.filename)
                    text == IF EndsWith(upload[r].files.filename, S_pdf)
                            THEN extract_pdf_text(OwnFiles(r), path)
                            ELSE extract_word_text(OwnFiles(r), path)
                    signals == check_color_alignment_fonts(OwnFiles(r), path)
                IN  /\ text.ok /\ signals.ok
                    /\ RatEq(Value(response[r], "ats_score"),
                             calculate_ats_score(preprocess_text(text.text), signals))

====
